---- MODULE Spec2Model ----
(***************************************************************************)
(* Reactive laser wanderer of lab1: the single-ray planner of              *)
(* car_laser_wanderer.py and the footprint planner of laser_wanderer.py.   *)
(*                                                                         *)
(* Numbers are fixed point.  Angles are milliradians, lengths are          *)
(* millimetres, speeds are mm/s, dt is milliseconds, costs are 1/1000 of   *)
(* the source's cost unit (so |delta| in mrad is the cost of delta), and   *)
(* wall-clock time is whole clock ticks.  Trigonometry is evaluated from   *)
(* tables with linear interpolation, to about one part in a thousand.      *)
(***************************************************************************)
EXTENDS Integers, Sequences, FiniteSets, TLC

\* ------------------------------------------------------------------------
\* Bounds of the exploration
\* ------------------------------------------------------------------------
MaxTime == 2
MaxPending == 2
MaxScans == 3

\* ------------------------------------------------------------------------
\* Floating point values that are not numbers
\* ------------------------------------------------------------------------
NaN == 99999999
Inf == 88888888

isfinite(r) == r # NaN /\ r # Inf

\* ------------------------------------------------------------------------
\* Arithmetic helpers
\* ------------------------------------------------------------------------
Abs(a) == IF a < 0 THEN -a ELSE a

Sgn(a) == IF a < 0 THEN -1 ELSE IF a > 0 THEN 1 ELSE 0

\* quotient rounded toward zero, as int() of a float quotient
QDiv(a, b) == Sgn(a) * Sgn(b) * (Abs(a) \div Abs(b))

\* ceiling of a / b for b # 0
CeilDiv(a, b) == IF b > 0 THEN -((-a) \div b) ELSE -(a \div (-b))

PI == 3142
HALF_PI == 1571
TWO_PI == 6283

SinTab == <<0, 100, 199, 296, 389, 479, 565, 644, 717, 783, 841, 891, 932,
            964, 985, 997, 1000, 1000>>

AtanTab == <<0, 100, 197, 291, 381, 464, 540, 611, 675, 733, 785, 785>>

\* 1000 * sin(r / 1000) for 0 <= r <= HALF_PI
SinQ(r) ==
    LET i == r \div 100
        f == r % 100
    IN  SinTab[i + 1] + ((SinTab[i + 2] - SinTab[i + 1]) * f) \div 100

\* 1000 * sin(a / 1000)
Sin(a) ==
    LET r == a % TWO_PI
    IN  IF r <= HALF_PI THEN SinQ(r)
        ELSE IF r <= PI THEN SinQ(PI - r)
        ELSE IF r <= PI + HALF_PI THEN -SinQ(r - PI)
        ELSE -SinQ(TWO_PI - r)

\* 1000 * cos(a / 1000)
Cos(a) == Sin(a + HALF_PI)

\* 1000 * tan(a / 1000), Inf where the cosine vanishes
Tan(a) == IF Cos(a) = 0 THEN Inf ELSE QDiv(1000 * Sin(a), Cos(a))

\* 1000 * atan(r / 1000) for 0 <= r <= 1000
AtanQ(r) ==
    LET i == r \div 100
        f == r % 100
    IN  AtanTab[i + 1] + ((AtanTab[i + 2] - AtanTab[i + 1]) * f) \div 100

\* 1000 * atan(r / 1000)
Atan(r) ==
    IF r = Inf THEN HALF_PI
    ELSE IF Abs(r) <= 1000 THEN Sgn(r) * AtanQ(Abs(r))
    ELSE Sgn(r) * (HALF_PI - AtanQ(1000000 \div Abs(r)))

\* np.arctan(y / x) on float64 operands: x = 0 gives +-inf, hence +-pi/2,
\* and 0 / 0 gives nan
arctan_ratio(y, x) ==
    IF x = 0
    THEN IF y = 0 THEN NaN ELSE Sgn(y) * HALF_PI
    ELSE Atan(QDiv(1000 * y, x))

\* ------------------------------------------------------------------------
\* Kinematic model and rollout generator
\* ------------------------------------------------------------------------
\* pose = <<x, y, theta>>, control = <<v, delta, dt>>
kinematic_model_step(pose, control, car_length) ==
    LET B == Atan(QDiv(Tan(control[2]), 2))
        s2B == Sin(2 * B)
        theta_raw == pose[3]
                     + QDiv(QDiv(control[1] * s2B, car_length) * control[3], 1000)
        theta_next == IF theta_raw < 0 THEN TWO_PI + theta_raw
                      ELSE IF theta_raw > TWO_PI THEN theta_raw - PI
                      ELSE theta_raw
        x_next == IF B = 0
                  THEN pose[1] + QDiv(QDiv(control[1] * control[3], 1000) * Cos(theta_next), 1000)
                  ELSE pose[1] + QDiv(car_length * (Sin(theta_next) - Sin(pose[3])), s2B)
        y_next == IF B = 0
                  THEN pose[2] + QDiv(QDiv(control[1] * control[3], 1000) * Sin(theta_next), 1000)
                  ELSE pose[2] - QDiv(car_length * (Cos(theta_next) - Cos(pose[3])), s2B)
    IN  <<x_next, y_next, theta_next>>

RECURSIVE rollout_from(_, _, _, _)
\* the poses appended by iterations i .. T of the loop of generate_rollout
rollout_from(pose, controls, car_length, i) ==
    IF i > Len(controls) THEN <<>>
    ELSE LET next == kinematic_model_step(pose, controls[i], car_length)
         IN  <<next>> \o rollout_from(next, controls, car_length, i + 1)

generate_rollout(init_pose, controls, car_length) ==
    rollout_from(init_pose, controls, car_length, 1)

\* The operands <<start, stop, step>> for which the float64 quotient
\* (stop - start) / step is above the whole number that the decimal operands
\* give: -0.26 - -0.34 is 0.08000000000000002, and divided by 0.08 that is
\* 1.0000000000000002.
QuotientRoundsUp == {<<-340, -260, 80>>}

\* np.arange(start, stop, step) for step # 0: ceil((stop - start) / step)
\* values start + i * step, none when that count is not positive; the
\* quotient is the float64 one
arange(start, stop, step) ==
    LET len == CeilDiv(stop - start, step)
               + (IF <<start, stop, step>> \in QuotientRoundsUp THEN 1 ELSE 0)
    IN  [i \in 1..(IF len > 0 THEN len ELSE 0) |-> start + (i - 1) * step]

\* returns the record of the pair (rollouts, deltas)
generate_mpc_rollouts(speed, min_delta, max_delta, delta_incr, dt, T, car_length) ==
    LET deltas == arange(min_delta, max_delta, delta_incr)
        N == Len(deltas)
        init_pose == <<0, 0, 0>>
    IN  [rollouts |-> [i \in 1..N |->
                          generate_rollout(init_pose,
                                           [t \in 1..T |-> <<speed, deltas[i], dt>>],
                                           car_length)],
         deltas |-> deltas]

\* ------------------------------------------------------------------------
\* Program constants (source units: cost, metres, fraction)
\* ------------------------------------------------------------------------
MAX_PENALTY == 10000
CAR_WIDTH == 300
DETECTION_THRESH == 500

\* ------------------------------------------------------------------------
\* Float comparisons: every comparison with nan is false
\* ------------------------------------------------------------------------
Lt(a, b) == a # NaN /\ b # NaN /\ a < b

Gt(a, b) == Lt(b, a)

\* min() and max() of a 2-tuple, as Python folds them with < and >
pymin(pair) == IF Lt(pair[2], pair[1]) THEN pair[2] ELSE pair[1]

pymax(pair) == IF Gt(pair[2], pair[1]) THEN pair[2] ELSE pair[1]

\* np.linalg.norm of (x, y) compared with a bound: norm > lim
norm_gt(x, y, lim) == lim < 0 \/ x * x + y * y > lim * lim

\* laser_msg.ranges[idx] for a 0-based Python index: the element read
\* (1-based position in the sequence), or 0 when the read raises IndexError
py_index(ranges, idx) ==
    IF idx >= 0 /\ idx < Len(ranges) THEN idx + 1
    ELSE IF idx < 0 /\ -idx <= Len(ranges) THEN Len(ranges) + idx + 1
    ELSE 0

\* The outcome of one call of compute_cost: the cost returned or the
\* exception raised, with the 0-based beam indices used on laser_msg.ranges
\* and the number of beams judged too close.
Returned(c, beams, k) == [raised |-> "none", cost |-> c, read |-> beams, count |-> k]

Raised(e, beams) == [raised |-> e, cost |-> 0, read |-> beams, count |-> 0]

\* the steering angle itself, without the magnitude
initial_cost_signed(delta) == delta

\* cost = np.absolute(delta)
initial_cost(delta) == Abs(delta)

\* ------------------------------------------------------------------------
\* Single-ray evaluator (car_laser_wanderer.py)
\* ------------------------------------------------------------------------
compute_pose_angle(current_pose, rollout_pose) ==
    LET delta_x == rollout_pose[1] - current_pose[1]
        delta_y == rollout_pose[2] - current_pose[2]
    IN  arctan_ratio(delta_y, delta_x)

\* a beam without return read as a return at distance zero
too_close_no_return_as_zero(rollout_pose, laser_ray_dist, laser_offset) ==
    norm_gt(rollout_pose[1], rollout_pose[2],
            (IF isfinite(laser_ray_dist) THEN laser_ray_dist ELSE 0)
            - Abs(laser_offset))

too_close(rollout_pose, laser_ray_dist, laser_offset) ==
    /\ isfinite(laser_ray_dist)
    /\ norm_gt(rollout_pose[1], rollout_pose[2], laser_ray_dist - Abs(laser_offset))

compute_cost_ray(delta, rollout_pose, laser_msg, laser_offset) ==
    LET cost == initial_cost(delta)
        current_pose == <<0, 0, 0>>
        rollout_pose_angle == compute_pose_angle(current_pose, rollout_pose)
        angle_index == QDiv(rollout_pose_angle - laser_msg.angle_min,
                            laser_msg.angle_increment)
        at == py_index(laser_msg.ranges, angle_index)
    IN  IF Lt(rollout_pose_angle, laser_msg.angle_min)
           \/ Gt(rollout_pose_angle, laser_msg.angle_max)
        THEN Returned(cost + 1000 * MAX_PENALTY, <<>>, 0)
        ELSE IF rollout_pose_angle = NaN THEN Raised("ValueError", <<>>)
        ELSE IF at = 0 THEN Raised("IndexError", <<angle_index>>)
        ELSE IF too_close(rollout_pose, laser_msg.ranges[at], laser_offset)
        THEN Returned(cost + 1000 * MAX_PENALTY, <<angle_index>>, 1)
        ELSE Returned(cost, <<angle_index>>, 0)

\* ------------------------------------------------------------------------
\* Footprint evaluator (laser_wanderer.py)
\* ------------------------------------------------------------------------
\* the pair (left_angle, right_angle) of the front corners of the car
rollout_to_laser_angle(roll_pose, car_length, car_width) ==
    LET c == Cos(roll_pose[3])
        s == Sin(roll_pose[3])
        hl == car_length \div 2
        hw == car_width \div 2
        xl == roll_pose[1] + QDiv(hl * c - hw * s, 1000)
        yl == roll_pose[2] + QDiv(hl * s + hw * c, 1000)
        xr == roll_pose[1] + QDiv(hl * c + hw * s, 1000)
        yr == roll_pose[2] + QDiv(hl * s - hw * c, 1000)
    IN  <<arctan_ratio(yl, xl), arctan_ratio(yr, xr)>>

RECURSIVE scan_beams(_, _, _, _, _, _)
\* the loop over angle_index: reads beams idx .. last in turn and counts the
\* beams that are too close; stops at the first read that raises
scan_beams(rollout_pose, laser_msg, laser_offset, idx, last, acc) ==
    IF idx > last THEN acc
    ELSE LET at == py_index(laser_msg.ranges, idx)
         IN  IF at = 0
             THEN [acc EXCEPT !.raised = "IndexError", !.read = @ \o <<idx>>]
             ELSE scan_beams(rollout_pose, laser_msg, laser_offset, idx + 1, last,
                      [acc EXCEPT !.read = @ \o <<idx>>,
                                  !.count = @ + (IF too_close(rollout_pose,
                                                              laser_msg.ranges[at],
                                                              laser_offset)
                                                 THEN 1 ELSE 0)])

\* compute_cost with the threshold test written as a strict comparison
compute_cost_footprint_strict(delta, rollout_pose, laser_msg, laser_offset, car_length, car_width) ==
    LET cost == initial_cost(delta)
        rollout_pose_angle == rollout_to_laser_angle(rollout_pose, car_length, car_width)
        lo_angle == pymin(rollout_pose_angle)
        hi_angle == pymax(rollout_pose_angle)
        i1 == QDiv(lo_angle - laser_msg.angle_min, laser_msg.angle_increment)
        i2 == QDiv(hi_angle - laser_msg.angle_min, laser_msg.angle_increment)
        first == IF i2 < i1 THEN i2 ELSE i1
        last == IF i2 > i1 THEN i2 ELSE i1
        size == last - first + 1
        swept == scan_beams(rollout_pose, laser_msg, laser_offset, first, last,
                            [raised |-> "none", read |-> <<>>, count |-> 0])
        too_close_count == swept.count
    IN  IF Lt(lo_angle, laser_msg.angle_min) \/ Gt(hi_angle, laser_msg.angle_max)
        THEN Returned(cost + 1000 * MAX_PENALTY, <<>>, 0)
        ELSE IF lo_angle = NaN \/ hi_angle = NaN THEN Raised("ValueError", <<>>)
        ELSE IF swept.raised # "none" THEN Raised(swept.raised, swept.read)
        ELSE IF size = 1 /\ too_close_count > 0
        THEN Returned(cost + 1000 * MAX_PENALTY, swept.read, too_close_count)
        ELSE IF 1000 * too_close_count > DETECTION_THRESH * size
        THEN Returned(cost + 1000 * MAX_PENALTY, swept.read, too_close_count)
        ELSE Returned(cost + QDiv(too_close_count * 30 * 1000, size), swept.read,
                      too_close_count)

\* compute_cost of the footprint policy; hazard_prop is a true division
\* (from __future__ import division) and is compared with the module constant
compute_cost_footprint(delta, rollout_pose, laser_msg, laser_offset, car_length, car_width) ==
    LET cost == initial_cost(delta)
        rollout_pose_angle == rollout_to_laser_angle(rollout_pose, car_length, car_width)
        lo_angle == pymin(rollout_pose_angle)
        hi_angle == pymax(rollout_pose_angle)
        i1 == QDiv(lo_angle - laser_msg.angle_min, laser_msg.angle_increment)
        i2 == QDiv(hi_angle - laser_msg.angle_min, laser_msg.angle_increment)
        first == IF i2 < i1 THEN i2 ELSE i1
        last == IF i2 > i1 THEN i2 ELSE i1
        size == last - first + 1
        swept == scan_beams(rollout_pose, laser_msg, laser_offset, first, last,
                            [raised |-> "none", read |-> <<>>, count |-> 0])
        too_close_count == swept.count
    IN  IF Lt(lo_angle, laser_msg.angle_min) \/ Gt(hi_angle, laser_msg.angle_max)
        THEN Returned(cost + 1000 * MAX_PENALTY, <<>>, 0)
        ELSE IF lo_angle = NaN \/ hi_angle = NaN THEN Raised("ValueError", <<>>)
        ELSE IF swept.raised # "none" THEN Raised(swept.raised, swept.read)
        ELSE IF size = 1 /\ too_close_count > 0
        THEN Returned(cost + 1000 * MAX_PENALTY, swept.read, too_close_count)
        ELSE IF 1000 * too_close_count >= DETECTION_THRESH * size
        THEN Returned(cost + 1000 * MAX_PENALTY, swept.read, too_close_count)
        ELSE Returned(cost + QDiv(too_close_count * 30 * 1000, size), swept.read,
                      too_close_count)

\* ------------------------------------------------------------------------
\* Launch parameters and scans the node is run with
\* ------------------------------------------------------------------------
Policies == {"ray", "footprint"}
Speeds == {1000}

\* the triples <<min_delta, max_delta, delta_incr>> of the launch files
Steering ==
    {<<-340, 340, 1020>>, <<-340, 341, 1020>>, <<170, 340, 1020>>,
     <<-340, -340, 1020>>, <<-340, -260, 240>>}

Dts == {500, 4000}
Horizons == {2}
ComputeTimes == {0, 2}
LaserOffsets == {-100}
CarLengths == {330}

\* the required parameters that the launch file leaves unset
Missing == {{}, {"~compute_time"}, {"~min_delta", "~max_delta"}}

\* the poses received on POSE_TOPIC, as <<x, y, yaw>>
PoseMsgs == {<<1000, 500, 1571>>}

\* msg before the first scan; header.seq of a received scan is 1 or more
NoScan ==
    [seq |-> 0, angle_min |-> 0, angle_max |-> 0, angle_increment |-> 1,
     ranges |-> <<>>]

\* a 180 degree scan without any return
ScanClear ==
    [angle_min |-> -1571, angle_max |-> 1571, angle_increment |-> 785,
     ranges |-> <<Inf, Inf, Inf, Inf, Inf>>]

\* a 103 degree scan of three beams: obstacle 0.2 m ahead, no return on
\* either side
ScanAhead ==
    [angle_min |-> -900, angle_max |-> 900, angle_increment |-> 600,
     ranges |-> <<NaN, 200, Inf>>]

\* a 90 degree scan whose ranges array ends before angle_max
ScanShort ==
    [angle_min |-> -785, angle_max |-> 785, angle_increment |-> 131,
     ranges |-> <<Inf, Inf, Inf, Inf, 400, 400, Inf, Inf>>]

Scans == {ScanClear, ScanAhead, ScanShort}

\* the LaserScan message: the scan with the header.seq the publisher gave it
LaserScan(scan, seq) ==
    [seq |-> seq, angle_min |-> scan.angle_min, angle_max |-> scan.angle_max,
     angle_increment |-> scan.angle_increment, ranges |-> scan.ranges]

\* ------------------------------------------------------------------------
\* State
\* ------------------------------------------------------------------------
VARIABLES
    params,        \* the launch parameters read by main
    self,          \* the fields of the LaserWanderer object
    now,           \* rospy.Time.now(), in ticks
    arrived,       \* number of scans received so far (header.seq of the latest)
    pending,       \* scans received on SCAN_TOPIC and not yet handed to wander_cb
    pc,            \* position of wander_cb: idle, poll, pass, decide; exited
                   \* when main raised and the process ended
    msg,           \* the scan wander_cb is running on (or ran on last)
    start,         \* local start of wander_cb
    delta_costs,   \* local delta_costs of wander_cb
    traj_depth,    \* local traj_depth of wander_cb
    n,             \* local n of the inner loop (1-based)
    published,     \* drive commands published on CMD_TOPIC for msg
    raised,        \* the exception that ended wander_cb for msg, or "none"
    last_call,     \* arguments and outcome of the latest compute_cost call
    sweep,         \* record of the running sweep: the depths scored for each
                   \* trajectory, and the calls made after the budget was spent
    viz            \* the PoseArray published last on VIZ_TOPIC

vars == <<params, self, now, arrived, pending, pc, msg, start, delta_costs, traj_depth,
          n, published, raised, last_call, sweep, viz>>

NoCall ==
    [delta |-> 0, rollout_pose |-> <<0, 0, 0>>, laser_msg |-> NoScan,
     result |-> [raised |-> "nocall", cost |-> 0, read |-> <<>>, count |-> 0]]

N == Len(self.deltas)

\* compute_cost of the node that is running
compute_cost(delta, rollout_pose, laser_msg) ==
    IF self.policy = "ray"
    THEN compute_cost_ray(delta, rollout_pose, laser_msg, self.laser_offset)
    ELSE compute_cost_footprint(delta, rollout_pose, laser_msg, self.laser_offset,
                                self.car_length, self.car_width)

RECURSIVE argmin_last_from(_, _, _)
\* keeps the last of several equal minima
argmin_last_from(a, i, best) ==
    IF i > Len(a) THEN best
    ELSE argmin_last_from(a, i + 1, IF a[i] <= a[best] THEN i ELSE best)

RECURSIVE argmin_from(_, _, _)
\* np.argmin: scan left to right, keep the first strictly smaller element
argmin_from(a, i, best) ==
    IF i > Len(a) THEN best
    ELSE argmin_from(a, i + 1, IF a[i] < a[best] THEN i ELSE best)

\* np.argmin of a non-empty array (1-based)
argmin(a) == argmin_from(a, 2, 1)

\* ------------------------------------------------------------------------
\* main: read the parameters, build the library, create the planner
\* ------------------------------------------------------------------------
\* the fields of self when main ended before LaserWanderer was constructed
NoPlanner(pol) ==
    [policy |-> pol, rollouts |-> <<>>, deltas |-> <<>>, T |-> 0, speed |-> 0,
     compute_time |-> 0, laser_offset |-> 0, car_length |-> 0, car_width |-> 0,
     detection_thresh |-> 0, current_pose |-> <<>>]

\* rospy.get_param without a default raises KeyError for a parameter that
\* is not set; the values read are used as they are
Init ==
    \E pol \in Policies, speed \in Speeds, steering \in Steering, dt \in Dts,
       T \in Horizons, compute_time \in ComputeTimes,
       laser_offset \in LaserOffsets, car_length \in CarLengths,
       missing \in Missing :
        LET min_delta == steering[1]
            max_delta == steering[2]
            delta_incr == steering[3]
            lib == generate_mpc_rollouts(speed, min_delta, max_delta,
                                         QDiv(delta_incr, 3), dt, T, car_length)
        IN  /\ params = [speed |-> speed, min_delta |-> min_delta,
                         max_delta |-> max_delta, delta_incr |-> delta_incr,
                         dt |-> dt, T |-> T, compute_time |-> compute_time,
                         laser_offset |-> laser_offset, car_length |-> car_length,
                         missing |-> missing]
            /\ IF missing # {}
               THEN /\ self = NoPlanner(pol)
                    /\ pc = "exited"
               ELSE /\ self = [policy |-> pol, rollouts |-> lib.rollouts,
                               deltas |-> lib.deltas, T |-> T, speed |-> speed,
                               compute_time |-> compute_time,
                               laser_offset |-> laser_offset,
                               car_length |-> car_length, car_width |-> CAR_WIDTH,
                               detection_thresh |-> DETECTION_THRESH,
                               current_pose |-> <<>>]
                    /\ pc = "idle"
            /\ now = 0
            /\ arrived = 0
            /\ pending = <<>>
            /\ msg = NoScan
            /\ start = 0
            /\ delta_costs = <<>>
            /\ traj_depth = 0
            /\ n = 1
            /\ published = <<>>
            /\ raised = "none"
            /\ last_call = NoCall
            /\ sweep = [scored |-> <<>>, late |-> 0]
            /\ viz = <<>>

\* ------------------------------------------------------------------------
\* Environment: the wall clock and the scan topic
\* ------------------------------------------------------------------------
Tick ==
    /\ now < MaxTime
    /\ now' = now + 1
    /\ UNCHANGED <<params, self, arrived, pending, pc, msg, start, delta_costs,
                   traj_depth, n, published, raised, last_call, sweep, viz>>

\* A scan arrives.  The subscriber is created without queue_size, so the
\* scan is buffered behind the scans already waiting.  An idle subscriber
\* dispatches a waiting scan before the next one arrives.  Without a
\* planner there is no subscriber.
ScanArrives ==
    /\ pc # "exited"
    /\ arrived < MaxScans
    /\ Len(pending) < MaxPending
    /\ pc = "idle" => pending = <<>>
    /\ arrived' = arrived + 1
    /\ \E scan \in Scans : pending' = Append(pending, LaserScan(scan, arrived + 1))
    /\ UNCHANGED <<params, self, now, pc, msg, start, delta_costs,
                   traj_depth, n, published, raised, last_call, sweep, viz>>

\* ------------------------------------------------------------------------
\* wander_cb
\* ------------------------------------------------------------------------
\* the accumulators of the previous sweep kept for the next scan
wander_cb_enter_keep_costs ==
    /\ pc = "idle"
    /\ pending # <<>>
    /\ msg' = Head(pending)
    /\ pending' = Tail(pending)
    /\ start' = now
    /\ delta_costs' = IF Len(delta_costs) = N THEN delta_costs ELSE [i \in 1..N |-> 0]
    /\ traj_depth' = 0
    /\ n' = 1
    /\ published' = <<>>
    /\ raised' = "none"
    /\ pc' = "poll"
    /\ sweep' = [scored |-> [i \in 1..N |-> <<>>], late |-> 0]
    /\ UNCHANGED <<params, self, now, arrived, last_call, viz>>

\* the subscriber hands the oldest waiting scan to wander_cb, which records
\* start and creates its locals
wander_cb_enter ==
    /\ pc = "idle"
    /\ pending # <<>>
    /\ msg' = Head(pending)
    /\ pending' = Tail(pending)
    /\ start' = now
    /\ delta_costs' = [i \in 1..N |-> 0]
    /\ traj_depth' = 0
    /\ n' = 1
    /\ published' = <<>>
    /\ raised' = "none"
    /\ pc' = "poll"
    /\ sweep' = [scored |-> [i \in 1..N |-> <<>>], late |-> 0]
    /\ UNCHANGED <<params, self, now, arrived, last_call, viz>>

\* the while condition without the depth test
wander_cb_poll_budget_only ==
    /\ pc = "poll"
    /\ IF now - start < self.compute_time
       THEN pc' = "pass" /\ n' = 1
       ELSE pc' = "decide" /\ n' = n
    /\ UNCHANGED <<params, self, now, arrived, pending, msg, start, delta_costs,
                   traj_depth, published, raised, last_call, sweep, viz>>

\* the while condition without the clock
wander_cb_poll_depth_only ==
    /\ pc = "poll"
    /\ IF traj_depth < self.T
       THEN pc' = "pass" /\ n' = 1
       ELSE pc' = "decide" /\ n' = n
    /\ UNCHANGED <<params, self, now, arrived, pending, msg, start, delta_costs,
                   traj_depth, published, raised, last_call, sweep, viz>>

\* the while condition: poll the clock, compare the depth with T
wander_cb_poll ==
    /\ pc = "poll"
    /\ IF now - start < self.compute_time /\ traj_depth < self.T
       THEN pc' = "pass" /\ n' = 1
       ELSE pc' = "decide" /\ n' = n
    /\ UNCHANGED <<params, self, now, arrived, pending, msg, start, delta_costs,
                   traj_depth, published, raised, last_call, sweep, viz>>

\* the for loop leaves the pass as soon as the budget is spent
wander_cb_eval_break ==
    /\ pc = "pass"
    /\ n <= N
    /\ IF now - start >= self.compute_time
       THEN /\ pc' = "decide"
            /\ UNCHANGED <<delta_costs, n, raised, last_call, sweep>>
       ELSE
       LET r == compute_cost(self.deltas[n], self.rollouts[n][traj_depth + 1], msg)
           late == sweep.late + (IF now - start >= self.compute_time THEN 1 ELSE 0)
       IN  /\ last_call' = [delta |-> self.deltas[n],
                            rollout_pose |-> self.rollouts[n][traj_depth + 1],
                            laser_msg |-> msg, result |-> r]
           /\ IF r.raised # "none"
              THEN /\ raised' = r.raised
                   /\ pc' = "idle"
                   /\ sweep' = [sweep EXCEPT !.late = late]
                   /\ UNCHANGED <<delta_costs, n>>
              ELSE /\ delta_costs' = [delta_costs EXCEPT ![n] = @ + r.cost]
                   /\ n' = n + 1
                   /\ sweep' = [scored |-> [sweep.scored EXCEPT
                                              ![n] = Append(@, traj_depth)],
                                late |-> late]
                   /\ UNCHANGED <<raised, pc>>
    /\ UNCHANGED <<params, self, now, arrived, pending, msg, start, traj_depth,
                   published, viz>>

\* the for loop overwrites the accumulator with the cost of the pose
wander_cb_eval_assign ==
    /\ pc = "pass"
    /\ n <= N
    /\ LET r == compute_cost(self.deltas[n], self.rollouts[n][traj_depth + 1], msg)
           late == sweep.late + (IF now - start >= self.compute_time THEN 1 ELSE 0)
       IN  /\ last_call' = [delta |-> self.deltas[n],
                            rollout_pose |-> self.rollouts[n][traj_depth + 1],
                            laser_msg |-> msg, result |-> r]
           /\ IF r.raised # "none"
              THEN /\ raised' = r.raised
                   /\ pc' = "idle"
                   /\ sweep' = [sweep EXCEPT !.late = late]
                   /\ UNCHANGED <<delta_costs, n>>
              ELSE /\ delta_costs' = [delta_costs EXCEPT ![n] = r.cost]
                   /\ n' = n + 1
                   /\ sweep' = [scored |-> [sweep.scored EXCEPT
                                              ![n] = Append(@, traj_depth)],
                                late |-> late]
                   /\ UNCHANGED <<raised, pc>>
    /\ UNCHANGED <<params, self, now, arrived, pending, msg, start, traj_depth,
                   published, viz>>

\* one iteration of the for loop: score trajectory n at traj_depth
wander_cb_eval ==
    /\ pc = "pass"
    /\ n <= N
    /\ LET r == compute_cost(self.deltas[n], self.rollouts[n][traj_depth + 1], msg)
           late == sweep.late + (IF now - start >= self.compute_time THEN 1 ELSE 0)
       IN  /\ last_call' = [delta |-> self.deltas[n],
                            rollout_pose |-> self.rollouts[n][traj_depth + 1],
                            laser_msg |-> msg, result |-> r]
           /\ IF r.raised # "none"
              THEN /\ raised' = r.raised
                   /\ pc' = "idle"
                   /\ sweep' = [sweep EXCEPT !.late = late]
                   /\ UNCHANGED <<delta_costs, n>>
              ELSE /\ delta_costs' = [delta_costs EXCEPT ![n] = @ + r.cost]
                   /\ n' = n + 1
                   /\ sweep' = [scored |-> [sweep.scored EXCEPT
                                              ![n] = Append(@, traj_depth)],
                                late |-> late]
                   /\ UNCHANGED <<raised, pc>>
    /\ UNCHANGED <<params, self, now, arrived, pending, msg, start, traj_depth,
                   published, viz>>

\* the for loop is exhausted: traj_depth += 1 and back to the while condition
wander_cb_next_depth ==
    /\ pc = "pass"
    /\ n > N
    /\ traj_depth' = traj_depth + 1
    /\ pc' = "poll"
    /\ UNCHANGED <<params, self, now, arrived, pending, msg, start, delta_costs, n,
                   published, raised, last_call, sweep, viz>>

\* an empty library answered with a command that has no steering angle
wander_cb_decide_publish_empty ==
    /\ pc = "decide"
    /\ LET min_delta_index == IF N = 0 THEN 0 ELSE argmin(delta_costs)
           min_delta == IF N = 0 THEN NaN ELSE self.deltas[min_delta_index]
       IN  published' = Append(published,
                               [stamp |-> now, steering_angle |-> min_delta,
                                speed |-> self.speed, index |-> min_delta_index])
    /\ pc' = "idle"
    /\ UNCHANGED <<params, self, now, arrived, pending, msg, start, delta_costs,
                   traj_depth, n, raised, last_call, sweep, viz>>

\* after the loop: argmin, fill the drive message, publish
wander_cb_decide ==
    /\ pc = "decide"
    /\ IF N = 0
       THEN /\ raised' = "ValueError"
            /\ UNCHANGED published
       ELSE LET min_delta_index == argmin(delta_costs)
                min_delta == self.deltas[min_delta_index]
            IN  /\ published' = Append(published,
                                       [stamp |-> now, steering_angle |-> min_delta,
                                        speed |-> self.speed,
                                        index |-> min_delta_index])
                /\ UNCHANGED raised
    /\ pc' = "idle"
    /\ UNCHANGED <<params, self, now, arrived, pending, msg, start, delta_costs,
                   traj_depth, n, last_call, sweep, viz>>

\* ------------------------------------------------------------------------
\* vizsub_cb (laser_wanderer.py)
\* ------------------------------------------------------------------------
\* the last pose of trajectory i in the frame of the world: M applied to its
\* position, the yaw of the message composed with its heading
world_pose(current_pose, last) ==
    <<current_pose[1] + QDiv(last[1] * Cos(current_pose[3])
                             - last[2] * Sin(current_pose[3]), 1000),
      current_pose[2] + QDiv(last[1] * Sin(current_pose[3])
                             + last[2] * Cos(current_pose[3]), 1000),
      current_pose[3] + last[3]>>

\* the last pose of every trajectory overwritten by its world-frame value
vizsub_cb_in_place ==
    /\ pc # "exited"
    /\ self.policy = "footprint"
    /\ \E pose \in PoseMsgs :
          /\ viz' = [i \in 1..N |->
                        world_pose(pose, self.rollouts[i][Len(self.rollouts[i])])]
          /\ self' = [self EXCEPT !.current_pose = pose,
                                  !.rollouts = [i \in 1..N |->
                                      [@[i] EXCEPT ![Len(@[i])] = viz'[i]]]]
    /\ UNCHANGED <<params, now, arrived, pending, pc, msg, start, delta_costs,
                   traj_depth, n, published, raised, last_call, sweep>>

\* a pose of the car arrives: keep it in self.current_pose and publish the
\* last pose of every trajectory in the frame of the world
vizsub_cb ==
    /\ pc # "exited"
    /\ self.policy = "footprint"
    /\ \E pose \in PoseMsgs :
          /\ self' = [self EXCEPT !.current_pose = pose]
          /\ viz' = [i \in 1..N |->
                        world_pose(pose, self.rollouts[i][Len(self.rollouts[i])])]
    /\ UNCHANGED <<params, now, arrived, pending, pc, msg, start, delta_costs,
                   traj_depth, n, published, raised, last_call, sweep>>

Next ==
    \/ Tick
    \/ ScanArrives
    \/ wander_cb_enter
    \/ wander_cb_poll
    \/ wander_cb_eval
    \/ wander_cb_next_depth
    \/ wander_cb_decide
    \/ vizsub_cb

Spec == Init /\ [][Next]_vars

TypeOK ==
    /\ pc \in {"idle", "poll", "pass", "decide", "exited"}
    /\ raised \in {"none", "IndexError", "ValueError"}
    /\ now \in 0..MaxTime
    /\ arrived \in 0..MaxScans
    /\ Len(pending) <= MaxPending
    /\ Len(delta_costs) \in {0, N}
    /\ traj_depth \in 0..self.T

\* ------------------------------------------------------------------------
\* Properties
\* ------------------------------------------------------------------------
\* wander_cb has finished for the scan msg
Finished == pc = "idle" /\ msg.seq > 0

\* wander_cb is in its depth sweep (Accumulating) or about to select (Deciding)
Running == pc \in {"poll", "pass", "decide"}

AllInfinity(scan) == \A k \in 1..Len(scan.ranges) : scan.ranges[k] = Inf

MinimalCost(i) == \A j \in 1..N : delta_costs[i] <= delta_costs[j]

\* C1: for every scan delivered to wander_cb exactly one drive command is
\* published, and only after the depth sweep has ended.  Stated for a
\* non-empty library: no command while the callback is sweeping or deciding,
\* exactly one once the callback has finished.
C1_OneCommandPerScan ==
    N >= 1 =>
        /\ Running => published = <<>>
        /\ Finished => Len(published) = 1

\* C2: with compute_time = 0, T >= 1 and a non-empty library, depth 0 has
\* been evaluated for all trajectories when the callback decides: the depth
\* counter is at least 1 at decision time.
C2_AnytimeDepthZero ==
    (pc = "decide" /\ self.compute_time = 0 /\ self.T >= 1 /\ N >= 1)
        => traj_depth >= 1

\* C3: the published index has minimal accumulated cost over all N
\* accumulators, and no lower index has the same cost.
C3_ArgminLowestIndex ==
    \A k \in 1..Len(published) :
        LET i == published[k].index
        IN  /\ i \in 1..N
            /\ MinimalCost(i)
            /\ \A j \in 1..(i - 1) : delta_costs[j] > delta_costs[i]

\* a command was selected among several trajectories of minimal cost after
\* at least one depth was scored
C3_Witness ==
    /\ Len(published) = 1
    /\ traj_depth >= 1
    /\ \E j \in 1..N : j # published[1].index /\ MinimalCost(j)

\* C4: every value compute_cost returns is at least |delta|, under both
\* policies and on every return path.
C4_CostFloor ==
    last_call.result.raised = "none"
        => last_call.result.cost >= Abs(last_call.delta)

\* compute_cost returned for a negative steering angle
C4_Witness ==
    /\ last_call.result.raised = "none"
    /\ last_call.delta < 0

\* C5: among the scans that arrived during a sweep only the latest one is
\* processed afterwards: when wander_cb starts, it runs on the newest waiting
\* scan and no older scan stays queued.
C5_KeepLatest ==
    [][(pc = "idle" /\ pc' = "poll")
           => (msg'.seq = arrived /\ pending' = <<>>)]_vars

C7_IndexInBounds ==
    /\ last_call.result.raised # "IndexError"
    /\ \A k \in 1..Len(last_call.result.read) :
           last_call.result.read[k] \in 0..(Len(last_call.laser_msg.ranges) - 1)

\* C8: a beam that is NaN or Infinity never contributes a penalty.  Single
\* ray: the cost of a pose mapped to such a beam is exactly |delta|.
\* Footprint: the beams counted too close are among the finite beams read.
C8_NoReturnNoPenalty ==
    LET r == last_call.result
        ranges == last_call.laser_msg.ranges
    IN  r.raised = "none" =>
            /\ (self.policy = "ray" /\ Len(r.read) = 1
                    /\ ~isfinite(ranges[r.read[1] + 1]))
                   => r.cost = Abs(last_call.delta)
            /\ r.count <= Cardinality({k \in 1..Len(r.read) :
                                          isfinite(ranges[r.read[k] + 1])})

\* the single-ray evaluator returned for a pose mapped to a NaN beam that
\* lies nearer than the pose
C8_Witness ==
    /\ self.policy = "ray"
    /\ last_call.result.raised = "none"
    /\ Len(last_call.result.read) = 1
    /\ last_call.laser_msg.ranges[last_call.result.read[1] + 1] = NaN
    /\ last_call.rollout_pose[1] > 0

\* C9: if every beam of the scan is Infinity, the published steering angle
\* is that of a candidate with minimum |delta|, whatever depth was reached.
C9_NoObstacleStraight ==
    \A k \in 1..Len(published) :
        AllInfinity(msg) =>
            \A i \in 1..N : Abs(published[k].steering_angle) <= Abs(self.deltas[i])

\* C10: every published command carries the delta of the selected library
\* trajectory, which lies in [min_delta, max_delta), and the configured
\* speed.
C10_CommandInRange ==
    \A k \in 1..Len(published) :
        LET cmd == published[k]
        IN  /\ cmd.index \in 1..N
            /\ cmd.steering_angle = self.deltas[cmd.index]
            /\ params.min_delta <= cmd.steering_angle
            /\ cmd.steering_angle < params.max_delta
            /\ cmd.speed = params.speed

\* C11: a configuration with a required parameter unset or out of its valid
\* range (max_delta <= min_delta, wheelbase not positive) ends main before
\* the planner exists, and no scan is ever handed to wander_cb.
InvalidConfiguration ==
    \/ params.missing # {}
    \/ params.max_delta <= params.min_delta
    \/ params.car_length <= 0

C11_InvalidConfigurationExits ==
    InvalidConfiguration => (pc = "exited" /\ msg.seq = 0)

\* C12: the deltas of the library are min_delta, min_delta + delta_incr, ...
\* up to the last value strictly below max_delta, with one trajectory of
\* exactly T poses for each; for (-0.34, 0.34, 0.34) they are -0.34 and 0.
C12_HalfOpenLibrary ==
    pc # "exited" =>
        LET incr == QDiv(params.delta_incr, 3)
        IN  /\ \A i \in 1..N :
                  /\ self.deltas[i] = params.min_delta + (i - 1) * incr
                  /\ self.deltas[i] < params.max_delta
            /\ params.min_delta + N * incr >= params.max_delta
            /\ Len(self.rollouts) = N
            /\ \A i \in 1..N : Len(self.rollouts[i]) = params.T
            /\ (params.min_delta = -340 /\ params.max_delta = 340 /\ incr = 340)
                  => self.deltas = <<-340, 0>>

\* wander_cb is not stuck: the guard of its next step holds, and the pose
\* that step reads exists
CanStep ==
    \/ pc = "poll"
    \/ pc = "decide"
    \/ pc = "pass" /\ n = N + 1
    \/ pc = "pass" /\ n \in 1..N /\ traj_depth < Len(self.rollouts[n])

\* the steps wander_cb can still take are bounded by Rank: T - traj_depth
\* passes of N calls, each with its poll and its increment, then the decision
Rank ==
    IF pc = "poll" THEN (self.T - traj_depth) * (N + 2) + 2
    ELSE IF pc = "pass" THEN (self.T - traj_depth - 1) * (N + 2) + 2 + (N + 2 - n)
    ELSE IF pc = "decide" THEN 1
    ELSE 0

\* C13: a pass starts only while elapsed < compute_time and traj_depth < T;
\* traj_depth never exceeds T and no trajectory is read at an index >= T;
\* the sweep terminates: wander_cb can always take its next step, and every
\* step it takes lowers Rank, which is never negative.
C13_BoundedSweep ==
    /\ [](traj_depth <= self.T)
    /\ [](\A i \in 1..Len(sweep.scored) : \A k \in 1..Len(sweep.scored[i]) :
             sweep.scored[i][k] < self.T)
    /\ [][(pc = "poll" /\ pc' = "pass")
              => (now - start < self.compute_time /\ traj_depth < self.T)]_vars
    /\ [](Running => (Rank >= 0 /\ CanStep))
    /\ [][(Running /\ (pc' # pc \/ n' # n)) => Rank' < Rank]_vars

\* a sweep that ended at traj_depth = T with budget left
C13_Witness ==
    /\ Finished
    /\ raised = "none"
    /\ N >= 2
    /\ traj_depth = self.T
    /\ now - start < self.compute_time

\* C14: the clock is read only in the while condition.  No pass starts once
\* elapsed has reached compute_time, a pass that has started scores every
\* trajectory whatever the clock says, and so the calls made after the budget
\* was spent are at most the N calls of one pass.
C14_OverrunAtMostOnePass ==
    /\ [][(pc # "pass" /\ pc' = "pass") => now - start < self.compute_time]_vars
    /\ [][(pc = "pass" /\ pc' # "pass") => (n > N \/ raised' # "none")]_vars
    /\ [](sweep.late <= N)

\* the budget ran out right after the poll and the whole pass still ran
C14_Witness ==
    /\ Finished
    /\ raised = "none"
    /\ N >= 2
    /\ sweep.late = N
    /\ traj_depth = 1

\* C15: whenever wander_cb polls the clock or decides, every trajectory has
\* been scored exactly once at each of the depths 0 .. traj_depth - 1, in
\* that order, and at no other depth.
C15_EqualDepth ==
    pc \in {"poll", "decide"} =>
        \A i \in 1..N : sweep.scored[i] = [k \in 1..traj_depth |-> k - 1]

C15_Witness ==
    /\ pc = "decide"
    /\ N >= 2
    /\ traj_depth = 2
    /\ sweep.scored[N] = <<0, 1>>

\* C16: within the sweep of one scan every accumulator is non-negative and
\* no step lowers it.
C16_MonotoneCosts ==
    /\ [](\A i \in 1..Len(delta_costs) : delta_costs[i] >= 0)
    /\ [][pc # "idle" =>
            \A i \in 1..Len(delta_costs) : delta_costs'[i] >= delta_costs[i]]_vars

\* an accumulator that grew at both depths
C16_Witness ==
    /\ pc = "decide"
    /\ traj_depth = 2
    /\ \E i \in 1..N : self.deltas[i] < 0 /\ delta_costs[i] >= 2 * Abs(self.deltas[i])

RECURSIVE scored_cost(_, _)
\* the costs of trajectory i on the scan msg at the first k depths scored
scored_cost(i, k) ==
    IF k = 0 THEN 0
    ELSE scored_cost(i, k - 1)
         + compute_cost(self.deltas[i],
                        self.rollouts[i][sweep.scored[i][k] + 1], msg).cost

\* C17: when a scan is handed to wander_cb all N accumulators and traj_depth
\* are zero, and from then on each accumulator is the sum of the costs of
\* its trajectory on that scan alone.
C17_FreshAccumulators ==
    /\ [][(pc = "idle" /\ pc' = "poll")
              => (traj_depth' = 0 /\ delta_costs' = [i \in 1..N |-> 0])]_vars
    /\ [](msg.seq > 0 =>
             \A i \in 1..N : delta_costs[i] = scored_cost(i, Len(sweep.scored[i])))

\* a later scan scored after an earlier sweep had accumulated penalties
C17_Witness ==
    /\ msg.seq >= 2
    /\ Finished
    /\ raised = "none"
    /\ traj_depth >= 1
    /\ \E i \in 1..N : delta_costs[i] = Abs(self.deltas[i])

\* C18: no callback changes the library: rollouts, deltas, N and T stay as
\* main built them.
C18_LibraryImmutable ==
    [][/\ self'.rollouts = self.rollouts
       /\ self'.deltas = self.deltas
       /\ Len(self'.deltas) = Len(self.deltas)
       /\ self'.T = self.T]_vars

\* scans were scored and poses visualised
C18_Witness ==
    /\ Finished
    /\ raised = "none"
    /\ traj_depth >= 1
    /\ N >= 2
    /\ self.current_pose # <<>>
    /\ Len(viz) = N

\* the bearing of the point (x, y) seen from the origin, in (-pi, pi]
bearing(x, y) ==
    IF x > 0 THEN Atan(QDiv(1000 * y, x))
    ELSE IF x < 0 THEN (IF y >= 0 THEN PI ELSE -PI) + Atan(QDiv(1000 * y, x))
    ELSE Sgn(y) * HALF_PI

\* the bearings of the front corners of the car at roll_pose
corner_bearings(roll_pose, car_length, car_width) ==
    LET c == Cos(roll_pose[3])
        s == Sin(roll_pose[3])
        hl == car_length \div 2
        hw == car_width \div 2
    IN  <<bearing(roll_pose[1] + QDiv(hl * c - hw * s, 1000),
                  roll_pose[2] + QDiv(hl * s + hw * c, 1000)),
          bearing(roll_pose[1] + QDiv(hl * c + hw * s, 1000),
                  roll_pose[2] + QDiv(hl * s - hw * c, 1000))>>

\* the pose of the latest compute_cost call cannot be observed in its scan
Unobservable ==
    LET p == last_call.rollout_pose
        m == last_call.laser_msg
        outside(a) == a < m.angle_min \/ a > m.angle_max
        corners == corner_bearings(p, self.car_length, self.car_width)
    IN  IF self.policy = "ray"
        THEN outside(bearing(p[1], p[2]))
        ELSE outside(corners[1]) \/ outside(corners[2])

\* C19: a pose whose bearing (single ray) or whose footprint bearing span
\* (footprint) is not inside [angle_min, angle_max] costs exactly
\* |delta| + MAX_PENALTY; no beam is read and nothing is raised.
C19_UnobservablePose ==
    (last_call.result.raised # "nocall" /\ Unobservable) =>
        last_call.result
            = Returned(Abs(last_call.delta) + 1000 * MAX_PENALTY, <<>>, 0)

\* C20: single ray, bearing inside the field of view: compute_cost returns
\* |delta| + MAX_PENALTY exactly when the range of the selected beam is
\* finite and the pose is farther from the origin than that range less
\* |laser_offset|, and |delta| otherwise; a beam of range 0.2 m with
\* laser_offset 0.1 m penalises every pose farther than 0.1 m.
C20_ObstructionRule ==
    LET p == last_call.rollout_pose
        m == last_call.laser_msg
        r == last_call.result
        b == bearing(p[1], p[2])
    IN  (/\ self.policy = "ray"
         /\ r.raised # "nocall"
         /\ b >= m.angle_min /\ b <= m.angle_max)
        => /\ r.raised = "none"
           /\ Len(r.read) = 1
           /\ LET beam_range == m.ranges[py_index(m.ranges, r.read[1])]
                  obstructed ==
                      /\ isfinite(beam_range)
                      /\ norm_gt(p[1], p[2], beam_range - Abs(self.laser_offset))
              IN  /\ r.cost = Abs(last_call.delta)
                               + (IF obstructed THEN 1000 * MAX_PENALTY ELSE 0)
                  /\ (/\ beam_range = 200
                       /\ Abs(self.laser_offset) = 100
                       /\ norm_gt(p[1], p[2], 100))
                     => r.cost = Abs(last_call.delta) + 1000 * MAX_PENALTY

\* ------------------------------------------------------------------------
\* Footprint penalty decision
\* ------------------------------------------------------------------------
\* a footprint compute_cost call that checked k >= 1 beams and returned
FootprintChecked ==
    /\ self.policy = "footprint"
    /\ last_call.result.raised = "none"
    /\ Len(last_call.result.read) >= 1

\* the penalty compute_cost added to |delta|, in thousandths
penalty_added == last_call.result.cost - Abs(last_call.delta)

\* C21: with k beams checked and c of them too close, compute_cost of the
\* footprint policy adds MAX_PENALTY when k = 1 and c = 1, adds MAX_PENALTY
\* when c/k >= the detection threshold the planner was configured with, and
\* otherwise adds 30 * c/k, which is less than MAX_PENALTY; for k = 4, c = 2
\* and a threshold of 0.5 the result is |delta| + MAX_PENALTY
C21_PenaltyDecision ==
    FootprintChecked =>
        LET k == Len(last_call.result.read)
            c == last_call.result.count
        IN  /\ c \in 0..k
            /\ (k = 1 /\ c = 1) => penalty_added = 1000 * MAX_PENALTY
            /\ 1000 * c >= self.detection_thresh * k
                   => penalty_added = 1000 * MAX_PENALTY
            /\ (~(k = 1 /\ c = 1) /\ 1000 * c < self.detection_thresh * k)
                   => /\ penalty_added = QDiv(30 * 1000 * c, k)
                      /\ penalty_added < 1000 * MAX_PENALTY
            /\ (k = 4 /\ c = 2 /\ self.detection_thresh = 500)
                   => last_call.result.cost
                          = Abs(last_call.delta) + 1000 * MAX_PENALTY

\* four beams checked, two of them too close, and MAX_PENALTY added
C21_Witness ==
    /\ FootprintChecked
    /\ Len(last_call.result.read) = 4
    /\ last_call.result.count = 2
    /\ self.detection_thresh = 500
    /\ penalty_added = 1000 * MAX_PENALTY

\* a graded penalty: some but less than the threshold share of the beams
\* checked are too close
C21_Graded ==
    /\ FootprintChecked
    /\ last_call.result.count > 0
    /\ penalty_added < 1000 * MAX_PENALTY
    /\ penalty_added > 0

\* ------------------------------------------------------------------------
\* Heading normalisation
\* ------------------------------------------------------------------------
\* theta_next as kinematic_model_step computes it before the two tests
unwrapped_heading(pose, control, car_length) ==
    pose[3] + QDiv(QDiv(control[1] * Sin(2 * Atan(QDiv(Tan(control[2]), 2))),
                        car_length) * control[3], 1000)

\* the pose that trajectory i is stepped from to reach its pose t
pose_before(i, t) ==
    IF t = 1 THEN <<0, 0, 0>> ELSE self.rollouts[i][t - 1]

\* the pose kinematic_model_step is applied to has its heading in [0, 2*pi)
HeadingInRange(pose) == pose[3] >= 0 /\ pose[3] < TWO_PI

\* C22: for every pose with theta in [0, 2*pi) and every control of the
\* library, kinematic_model_step returns a heading in [0, 2*pi) that is
\* congruent modulo 2*pi to the unwrapped heading
\* theta + (speed / car_length) * sin(2 * B) * dt, so every pose of every
\* library trajectory has its heading in [0, 2*pi)
C22_HeadingNormalised ==
    \A i \in 1..Len(self.rollouts) : \A t \in 1..Len(self.rollouts[i]) :
        LET pose == pose_before(i, t)
            control == <<self.speed, self.deltas[i], params.dt>>
            next == kinematic_model_step(pose, control, self.car_length)
        IN  /\ next = self.rollouts[i][t]
            /\ HeadingInRange(pose)
                   => /\ HeadingInRange(next)
                      /\ (next[3] - unwrapped_heading(pose, control,
                                                      self.car_length))
                             % TWO_PI = 0

\* the headings of the library alone: every one of them is in [0, 2*pi)
LibraryHeadingsInRange ==
    \A i \in 1..Len(self.rollouts) : \A t \in 1..Len(self.rollouts[i]) :
        HeadingInRange(self.rollouts[i][t])

\* the wrap of a heading that fell below 0 adds 2*pi
WrapBelowZero ==
    \A i \in 1..Len(self.rollouts) : \A t \in 1..Len(self.rollouts[i]) :
        LET pose == pose_before(i, t)
            control == <<self.speed, self.deltas[i], params.dt>>
            raw == unwrapped_heading(pose, control, self.car_length)
        IN  (raw < 0 /\ raw >= -TWO_PI)
                => self.rollouts[i][t][3] = raw + TWO_PI

====
